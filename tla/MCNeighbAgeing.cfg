CONSTANTS
  Macs = {m1, m2, m3, m4}
  PortNumber = 2
  IfIndexes <- ThreeInterfaces
  MaxEntry = 1
  UpdateTTL = 2
  Nobody = Nobody
SYMMETRY MacSymmetry
SPECIFICATION LifeSpec
PROPERTY PhasedOutAtZero
