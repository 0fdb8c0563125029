SPECIFICATION Spec
CONSTANTS
  Elements = {e1}
  Clients = {c1, c2}
  Nonces = {1, 2}
  MaxFailures = 1
  MaxReconnects = 0
  MaxLeaves = 0
  MaxRevokes = 0
CHECK_DEADLOCK FALSE
INVARIANT
  CanvasCoversRevision
