SPECIFICATION Spec
CONSTANTS
  Defaults <- MCDefaults
  System <- MCSystem
  Contents <- MCContents
  NamesMax = 2
  Refused = {"SSID_5", "DHCP"}
  MaxFaults = 0
  MaxOthers = 0
  Menu <- MCNtp
  Enabled <- MCEnabled
  AuthenOn <- MCAuthenOn
  PageMax = 3
  MaxSends = 2
  MaxPass = 0
  MaxEnds = 0
INVARIANT ResultIsTrue
CHECK_DEADLOCK FALSE
