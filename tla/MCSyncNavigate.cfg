SPECIFICATION Spec
CONSTANTS
  Elements = {e1}
  Clients = {c1}
  Nonces = {1, 2}
  MaxFailures = 0
  MaxReconnects = 0
  MaxLeaves = 1
  MaxRevokes = 0
CHECK_DEADLOCK FALSE
PROPERTY
  NavigationFlushes
