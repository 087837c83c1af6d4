SPECIFICATION FairSpec
CONSTANTS
  Defaults <- MCDefaults
  System <- MCSystem
  Contents <- MCContents
  NamesMax = 2
  Refused = {"SSID_5", "DHCP"}
  MaxFaults = 1
  MaxOthers = 1
  Menu <- MCMenu
  Enabled <- MCEnabled
  AuthenOn <- MCAuthenOn
  PageMax = 3
  MaxSends = 2
  MaxPass = 1
  MaxEnds = 1
INVARIANTS TypeOK ClientView FileWhole PagesComplete
PROPERTIES DelayedRuns
CHECK_DEADLOCK FALSE
