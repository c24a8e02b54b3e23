\* Every three insertions of 26 templates, and after each of them every path
\* of up to three names, none included, longer ones and some with dots.
CONSTANTS
  Names <- MCNames
  Templates <- MCTemplates
  Paths <- MCPaths
  MaxRoutes = 3
SPECIFICATION Spec
INVARIANTS
  WellFormed
  StoredOnce
  FindsBest
  CapturesLast
  DotsResolved
\* The calls of insert() are bounded.
CHECK_DEADLOCK FALSE
