CONSTANTS
  Macs = {m1, m2, m3, m4}
  Zero = Zero
  Nodes = {n1, n2, n3, n4}
  NULL = NULL
  PortNumber = 2
  IfIndexes <- ThreeInterfaces
  MaxEntry = 2
  UpdateTTL = 3
SYMMETRY MacSymmetry
SPECIFICATION Spec
INVARIANTS
  TypeOK
  ListsSound
  WalksLive
PROPERTY ImplementsTable
