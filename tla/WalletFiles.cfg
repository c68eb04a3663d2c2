SPECIFICATION FairSpec
CONSTANTS
  Absent = Absent
  Empty = Empty
  GeneratorFails = TRUE
  OpenFails = TRUE
  ReadFails = TRUE
  DiskFills = FALSE
  Crashing = TRUE
  MaxKeys = 6
CHECK_DEADLOCK FALSE
INVARIANTS
  AddressOfOwnPair
  AcceptedWalletStarts
PROPERTIES
  CompleteWalletStays
  StartEnds
