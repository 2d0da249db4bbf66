CONSTANTS
  p1 = p1
  p2 = p2
  Line = {1, 2}
  operations <- Stores
  Followed = {1, 2}
  Processor = {p1}
  DATA_LEVELS = 3
  cache_indexes <- PrivateThenShared
  n_sets <- OneEach
  n_ways <- OneEach
  MAX_REQUESTS = 1
  NULL = NULL
SPECIFICATION Spec
INVARIANTS StoresKept
