SPECIFICATION FairSpec
CONSTANTS
  n1 = n1
  n2 = n2
  Nodes = {n1, n2}
  None = None
  COINBASE_AMOUNT = 2
  DIFFICULTY_ADJUSTMENT_INTERVAL = 1
  BLOCK_CREATION_INTERVAL = 2
  TIMESTAMP_TOLERANCE = 60
  MAX_INT = 2147483647
  PoolPayments <- CrossPayments
  BlockPayments <- PaymentsWithChange
  Crashing = {}
  MaxBlocks = 3
  MaxChains = 1000
  MaxPool = 1
  MaxTime = 0
  MaxSkew = 0
CHECK_DEADLOCK FALSE
INVARIANTS
  TypeOK
  SupplyConserved
  PoolMinable
  MinedBlockAccepted
  CreatedTransactionAccepted
  UtxoIsUnspent
  SameTipSameState
PROPERTIES
  MiningEnds
