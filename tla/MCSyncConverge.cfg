SPECIFICATION Spec
CONSTANTS
  Elements = {e1}
  Clients = {c1, c2}
  Nonces = {1, 2}
  MaxFailures = 0
  MaxReconnects = 1
  MaxLeaves = 1
  MaxRevokes = 1
SYMMETRY Symmetry
CHECK_DEADLOCK FALSE
INVARIANTS
  Converges
PROPERTIES
  NeverOverNewer
