SPECIFICATION AiSpec
CONSTANTS
  Elements = {e1}
  Calls = {p1, p2}
  Nonces = {1, 2}
  MaxObjects = 2
  MaxLag = 0
  Runs = {r1}
  NoRun = NoRun
  NoPatch = NoPatch
SYMMETRY Symmetry
CHECK_DEADLOCK FALSE
INVARIANTS
  SnapshotFaithful
  TraceNeedsApproval
PROPERTIES
  RestoreLands
  UndoPoint
