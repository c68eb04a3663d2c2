SPECIFICATION Spec
CONSTANTS
  Significands = 256
  Units <- PowersOfTwo
  Quanta = 64
  TextUnits = 100
  TypedUnits = 100
  COINBASE_AMOUNT = 10
  TypedAmounts <- Quarters
  MaxCoins = 2
CHECK_DEADLOCK FALSE
INVARIANTS
  PaymentsFit
  PeersAccept
  SameWorth
