SPECIFICATION Spec
CONSTANTS
  me = me
  you = you
  server = server
  client = client
  http = http
  None = None
  Self = me
  Peer = you
  PeerThreads = {server, client}
  PollingThreads = {client}
  COINBASE_AMOUNT = 1
  DIFFICULTY_ADJUSTMENT_INTERVAL = 10
  BLOCK_CREATION_INTERVAL = 10
  TIMESTAMP_TOLERANCE = 60
  MAX_INT = 2147483647
  Payments <- OwnPayment
  BlockPayments <- NoPayments
  MinesPool = TRUE
  FilesFail = FALSE
  Now = 2
  MaxBlocks = 3
  MaxPool = 1
  MaxPeerChains = 3
CHECK_DEADLOCK FALSE
INVARIANTS
  UtxoMatchesChain
