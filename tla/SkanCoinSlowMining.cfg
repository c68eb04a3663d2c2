SPECIFICATION FairSpec
CONSTANTS
  n1 = n1
  n2 = n2
  Nodes = {n1}
  None = None
  COINBASE_AMOUNT = 2
  DIFFICULTY_ADJUSTMENT_INTERVAL = 2
  BLOCK_CREATION_INTERVAL = 1
  TIMESTAMP_TOLERANCE = 1
  MAX_INT = 2147483647
  PoolPayments <- NoPayments
  BlockPayments <- NoPayments
  Crashing = {}
  MaxBlocks = 4
  MaxChains = 1000
  MaxPool = 0
  MaxTime = 5
  MaxSkew = 0
CHECK_DEADLOCK FALSE
PROPERTY
  MiningEnds
