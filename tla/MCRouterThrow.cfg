\* One insertion that throws after another.
CONSTANTS
  Names <- MCNames
  Templates <- MCTemplates
  Paths <- MCPaths
  MaxRoutes = 2
SPECIFICATION Spec
INVARIANT StrongGuarantee
CHECK_DEADLOCK FALSE
