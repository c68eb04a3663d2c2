SPECIFICATION TransferSpec
CONSTANTS
  n1 = n1
  n2 = n2
  Nodes = {n1, n2}
  None = None
  COINBASE_AMOUNT = 1
  DIFFICULTY_ADJUSTMENT_INTERVAL = 10
  BLOCK_CREATION_INTERVAL = 10
  TIMESTAMP_TOLERANCE = 60
  MAX_INT = 2147483647
  PoolPayments <- NoPayments
  BlockPayments <- NoPayments
  Crashing = {}
  MaxBlocks = 3
  MaxChains = 1000
  MaxPool = 0
  MaxTime = 0
  MaxSkew = 0
  Connections <- OneConnection
  MaxTransfers = 2
CHECK_DEADLOCK FALSE
PROPERTY
  WholeChainCompared
