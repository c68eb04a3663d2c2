SPECIFICATION Spec
CONSTANTS
  me = me
  you = you
  server = server
  client = client
  http = http
  None = None
  Self = me
  Peer = you
  PeerThreads = {server, client}
  PollingThreads = {client}
  COINBASE_AMOUNT = 1
  DIFFICULTY_ADJUSTMENT_INTERVAL = 10
  BLOCK_CREATION_INTERVAL = 10
  TIMESTAMP_TOLERANCE = 60
  MAX_INT = 2147483647
  Payments <- CrossPayments
  BlockPayments <- OwnPayment
  MinesPool = TRUE
  FilesFail = TRUE
  Now = 2
  MaxBlocks = 2
  MaxPool = 1
  MaxPeerChains = 2
CHECK_DEADLOCK FALSE
INVARIANTS
  HolderGivesBack
  UtxoLostByOverlapOnly
  DoubleSpendByOverlapOnly
  PoolHasStats
  CoinbasePerBlock
