SPECIFICATION Spec
CONSTANTS
  MAX_MSG_QUEUE_SIZE = 32
  Base = 2
  Payload <- MCPayload
  Sequences = {0, 1}
  MaxSequence = 5
INVARIANTS
  TypeOK
  WellFramed
PROPERTY ImplementsFifo
