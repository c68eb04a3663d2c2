SPECIFICATION FairSpec
CONSTANTS
  Sizes <- ShortBroadcasts
  LongFrom = 2
  BufferSize = 2
  MaxSent <- TwoBroadcasts
CHECK_DEADLOCK FALSE
INVARIANTS
  InOrder
  DestroyedUnlisted
PROPERTIES
  MessagesArrive
  BrokenUnlisted
