CONSTANTS
  p1 = p1
  p2 = p2
  Line = {1, 2, 3}
  operations <- Mixed
  Followed = {}
  Processor = {p1, p2}
  DATA_LEVELS = 3
  cache_indexes <- PrivateThenShared
  n_sets <- OneEach
  n_ways <- TwoBelow
  MAX_REQUESTS = 2
  NULL = NULL
SPECIFICATION Spec
INVARIANTS OneCopyPerCache WriteBackFindsLevelsBelow
PROPERTIES PrivateCachesKept
