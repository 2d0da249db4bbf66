CONSTANTS
  CHANNEL = 2
  BANK = 1
  BANK_BUFFER_SIZE = 2
  REQUEST_PRIORITY = "ROW_BUFFER_HITS_FIRST"
  WRITE_PRIORITY = "SERVICE_AT_NO_READ"
  CLOSED_ROW = TRUE
  ROW_MODULUS = 2
  Address <- TwoChannels
  Vectorial <- Never
  Request = {r1, r2, r3}
  NULL = NULL
SYMMETRY Symmetric
SPECIFICATION Spec
PROPERTIES ImplementsService
