CONSTANTS
  VIMA_BUFFER = 2
  vima_lines = 3
  no_sub_requests = 2
  VimaInstruction <- MCVimaInstruction
  VIMA_TRACE = 3
  NULL = NULL
  HIVE_BUFFER = 6
  HIVE_REGISTERS = 2
  nano_requests_number = 2
  hive_op_latency = 2
  HiveTraces <- MCHiveTraces
SPECIFICATION Spec
CHECK_DEADLOCK FALSE
INVARIANTS TypeOK CountedAreBack OperandsHeld LoadedBeforeUse LockAsserted UnlockedIsIdle
PROPERTY EveryInstructionCompletes
