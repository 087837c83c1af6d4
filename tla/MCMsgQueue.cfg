CONSTANTS
  Threads = {t1, t2}
  Msgs = {m1, m2}
  Nodes = {n1, n2, n3}
  Lengths = {1, 2}
  NULL = NULL
SYMMETRY Symmetry
SPECIFICATION Spec
INVARIANTS
  ListShape
  NodeOwnership
  HeapAccounted
PROPERTY ImplementsFifo
