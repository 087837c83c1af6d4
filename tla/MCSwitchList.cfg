SPECIFICATION Spec
CONSTANTS
  VlanIds = {1, 7, 8}
  VlanMenu <- MCVlanMenu
  AsvMenu <- MCAsvMenu
  MacMenu <- MCMacMenu
  MacsMax = 2
  Units <- MCUnits
  AuthenOn = {"VLAN_CFG", "ASV_CFG", "ASV_USR_MAC_CFG"}
  Refused = {"tags"}
INVARIANT ListComplete
