\* Two lists and four nodes: a list of every length up to four, copies of
\* lists of two, moves between lists of any length.
CONSTANTS
  Lists = {l, m}
  Nodes = {n1, n2, n3, n4}
  Values = {v1, v2}
  Null = Null
  Free = Free
  Void = Void
  OutOfRange = OutOfRange
SPECIFICATION Spec
SYMMETRY Symmetric
INVARIANTS
  Linked
  NothingDangles
  LeakOnlyByMove
PROPERTY DequeSpec
