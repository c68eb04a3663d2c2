SPECIFICATION TransferSpec
CONSTANTS
  n1 = n1
  n2 = n2
  Nodes = {n1, n2}
  None = None
  COINBASE_AMOUNT = 1
  DIFFICULTY_ADJUSTMENT_INTERVAL = 10
  BLOCK_CREATION_INTERVAL = 10
  TIMESTAMP_TOLERANCE = 60
  MAX_INT = 2147483647
  PoolPayments <- NoPayments
  BlockPayments <- NoPayments
  Crashing = {n1}
  MaxBlocks = 3
  MaxChains = 4
  MaxPool = 0
  MaxTime = 1
  MaxSkew = 0
  Connections <- TwoConnections
  MaxTransfers = 2
CHECK_DEADLOCK FALSE
PROPERTY
  DeliversWholeChains
