CONSTANTS
  NUMBER_OF_PROCESSORS = 2
  Request = {r1, r2, r3}
  Client = {c1, c2}
  Line = {a, b}
  NoLine = NoLine
  INSTRUCTION_LEVELS = 1
  DATA_LEVELS = 2
  DCACHE_AMOUNT <- PrivateThenShared
  MSHR_SIZE <- TwoThenOne
  VIMA_BUFFER = 1
  HIVE_BUFFER = 2
SYMMETRY Symmetric
SPECIFICATION Spec
INVARIANTS TypeOK MSHRConservation MSHRBounds ClientsRegistered HeldPackagesAlive MergedByLine NoneForgotten
