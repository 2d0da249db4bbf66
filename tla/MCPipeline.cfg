CONSTANTS
  ROB_SIZE = 3
  UNIFIED_RS = 2
  MOB_READ = 3
  MOB_WRITE = 2
  MOB_HIVE = 1
  MOB_VIMA = 1
  MAX_UOPS = 4
  LOAD_HASH_SIZE = 2
  STORE_HASH_SIZE = 2
  DESAMBIGUATION_BLOCK_SIZE = 2
  ADDRESS_TO_ADDRESS = TRUE
  Register = {1, 2}
  Uop <- Mixed
  NULL = NULL
SPECIFICATION FairSpec
INVARIANTS OperandsReady AliasIsYoungestWriter EveryWaitHasAWaker MobFollowsRob ExecutedCountsUnprocessed MemoryOrder KeptCandidateSendable
PROPERTIES EveryUopCommits
