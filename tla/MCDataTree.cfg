CONSTANTS
  Paths <- MCPaths
  Values = {1, 2}
  Probes <- MCProbes
  None = None
  MaxLength = 4
SPECIFICATION Spec
INVARIANTS
  LookupAgrees
  Canonical
PROPERTIES
  ImplementsFieldMap
  NewNodesCounted
