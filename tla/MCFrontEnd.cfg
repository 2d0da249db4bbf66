CONSTANTS
  FETCH_WIDTH = 2
  FETCH_BUFFER = 2
  DECODE_WIDTH = 2
  DECODE_BUFFER = 4
  BTB_SETS = 2
  BTB_WAYS = 2
  BTB_MISS_PENALITY = 1
  MISSPREDICTION_PENALITY = 2
  INSTRUCTION_MSHR = 2
  Instruction <- MCInstruction
  TRACE = 5
SPECIFICATION Spec
CHECK_DEADLOCK FALSE
INVARIANTS DecodeAsserted BranchHasOneEntry NothingBeyondTarget
PROPERTIES EveryInstructionDecoded
