SPECIFICATION Spec
CONSTANTS
  Handlers = {h1, h2}
  MutationIds = {m1, m2, m3}
  NoMutation = NoMutation
  Readers = {}
  MAX_SEQUENCE_RETRIES = 2
SYMMETRY Symmetry
INVARIANTS
  TypeOK
  LogDense
  OneRowPerKey
  AckDurable
  ReplyCoversGap
  RefusedOnlyUnderContention
PROPERTIES
  ImplementsDurableLog
