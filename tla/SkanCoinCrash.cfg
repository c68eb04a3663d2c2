SPECIFICATION Spec
CONSTANTS
  n1 = n1
  n2 = n2
  Nodes = {n1, n2}
  None = None
  COINBASE_AMOUNT = 1
  DIFFICULTY_ADJUSTMENT_INTERVAL = 10
  BLOCK_CREATION_INTERVAL = 10
  TIMESTAMP_TOLERANCE = 60
  MAX_INT = 2147483647
  PoolPayments <- OnePayment
  BlockPayments <- NoPayments
  Crashing = {n1}
  MaxBlocks = 3
  MaxChains = 4
  MaxPool = 1
  MaxTime = 1
  MaxSkew = 0
CHECK_DEADLOCK FALSE
INVARIANTS
  UtxoIsUnspent
  PoolMinable
  MinedBlockAccepted
PROPERTY
  ChainOnlyImproves
