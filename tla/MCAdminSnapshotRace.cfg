\* A copy of a queue that is dequeued meanwhile.
CONSTANTS
  Tasks = {k1, k2, k3}
  Nodes = {n1, n2, n3}
  Moved = Moved
  Null = Null
  Free = Free
SPECIFICATION Spec
INVARIANT NoDangling
