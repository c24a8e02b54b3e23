\* Three tasks through three addresses: nodes are reused, and the list takes
\* every length from none to three.
CONSTANTS
  Tasks = {k1, k2, k3}
  Nodes = {n1, n2, n3}
  Moved = Moved
  Null = Null
  Free = Free
SPECIFICATION Spec
SYMMETRY Symmetric
INVARIANTS
  WriterExact
  CopyExact
