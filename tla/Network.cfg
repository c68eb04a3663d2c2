SPECIFICATION FairSpec
CONSTANTS
  n1 = n1
  n2 = n2
  Nodes = {n1, n2}
  None = None
  COINBASE_AMOUNT = 1
  DIFFICULTY_ADJUSTMENT_INTERVAL = 10
  BLOCK_CREATION_INTERVAL = 10
  TIMESTAMP_TOLERANCE = 60
  MAX_INT = 2147483647
  PoolPayments <- OnePayment
  BlockPayments <- OnePayment
  Crashing = {n1}
  MaxBlocks = 2
  MaxChains = 4
  MaxPool = 1
  MaxSkew = 0
  MaxTime = 1
  Breaking = TRUE
  MaxConnections = 2
  MiningFrom = 1
CHECK_DEADLOCK FALSE
INVARIANTS
  PeersHoldBestChain
  PeersShareTransactions
PROPERTIES
  Implements
  MessagesEnd
