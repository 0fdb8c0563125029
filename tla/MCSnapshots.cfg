SPECIFICATION Spec
CONSTANTS
  Elements = {e1}
  Calls = {p1, p2}
  Nonces = {1, 2}
  MaxObjects = 2
  MaxLag = 1
SYMMETRY Symmetry
CHECK_DEADLOCK FALSE
PROPERTY
  RestoreExact
