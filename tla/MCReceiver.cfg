SPECIFICATION FairSpec
CONSTANTS
  Role = {"cli6", "cli4", "srv6", "srv4", "v1"}
  CanReport = TRUE
  ProxyType = 4
  Interfaces = {1, 2}
  Menu <- MCMenu
  MaxArrivals = 2
  MaxFaults = 1
  MaxTurns = 2
INVARIANTS TypeOK Accounted HaltStops
PROPERTIES Responsive
CHECK_DEADLOCK FALSE
