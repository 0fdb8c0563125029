SPECIFICATION FairSpec
CONSTANTS
  Handlers = {h1, h2}
  MutationIds = {m1, m2}
  NoMutation = NoMutation
  Readers = {r1}
  MAX_SEQUENCE_RETRIES = 2
INVARIANTS
  ReaderComplete
PROPERTIES
  CommitsInOrder
  RequestEnds
