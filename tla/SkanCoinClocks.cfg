SPECIFICATION Spec
CONSTANTS
  n1 = n1
  n2 = n2
  Nodes = {n1, n2}
  None = None
  COINBASE_AMOUNT = 2
  DIFFICULTY_ADJUSTMENT_INTERVAL = 2
  BLOCK_CREATION_INTERVAL = 1
  TIMESTAMP_TOLERANCE = 1
  MAX_INT = 4
  PoolPayments <- NoPayments
  BlockPayments <- NoPayments
  Crashing = {}
  MaxBlocks = 4
  MaxChains = 5
  MaxPool = 0
  MaxTime = 2
  MaxSkew = 2
CHECK_DEADLOCK FALSE
INVARIANTS
  ChainLinked
  DifficultyAsScheduled
SYMMETRY NodeSymmetry
PROPERTIES
  ChainOnlyImproves
