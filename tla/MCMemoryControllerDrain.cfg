CONSTANTS
  CHANNEL = 1
  BANK = 2
  BANK_BUFFER_SIZE = 2
  REQUEST_PRIORITY = "ROW_BUFFER_HITS_FIRST"
  WRITE_PRIORITY = "DRAIN_WHEN_FULL"
  CLOSED_ROW = FALSE
  ROW_MODULUS = 2
  Address <- NearAndFar
  Vectorial <- Never
  Request = {r1, r2, r3}
  NULL = NULL
SYMMETRY Symmetric
SPECIFICATION Spec
INVARIANTS FetchingExactlyQueued AnsweredExactlyWhenGone
PROPERTIES ImplementsService
