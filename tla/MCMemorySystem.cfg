CONSTANTS
  NUMBER_OF_PROCESSORS = 1
  Request = {r1, r2}
  WriteBack = {w1}
  Client = {c1}
  line_a = line_a
  line_b = line_b
  Line = {line_a, line_b}
  NoLine = NoLine
  INSTRUCTION_LEVELS = 1
  DATA_LEVELS = 2
  DCACHE_AMOUNT <- Shared
  MSHR_SIZE <- TwoThenOne
  VIMA_BUFFER = 1
  HIVE_BUFFER = 2
  CHANNEL = 1
  BANK = 1
  BANK_BUFFER_SIZE = 1
  REQUEST_PRIORITY = "ROW_BUFFER_HITS_FIRST"
  WRITE_PRIORITY = "SERVICE_AT_NO_READ"
  CLOSED_ROW = TRUE
  ROW_MODULUS = 1
  ADDRESS <- OneRow
  NULL = NULL
SPECIFICATION FairSystemSpec
INVARIANTS HandedOverIntact
PROPERTIES SimulationEnds
