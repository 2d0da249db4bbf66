CONSTANTS
  CHANNEL = 1
  BANK = 2
  BANK_BUFFER_SIZE = 2
  REQUEST_PRIORITY = "ROW_BUFFER_HITS_FIRST"
  WRITE_PRIORITY = "SERVICE_AT_NO_READ"
  CLOSED_ROW = TRUE
  ROW_MODULUS = 2
  Address <- TwoRows
  Vectorial <- Never
  Request = {r1, r2}
  NULL = NULL
SPECIFICATION FairSpec
PROPERTIES EveryRequestAnswered
