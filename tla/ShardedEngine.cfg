SPECIFICATION Spec
CONSTANTS
  NumShards = 2
  Symbols = {0, 1, 2}
  ShardOf <- MCShardOf
  RingCapacity = 2
  PoolCapacity = 2
  AddQuantities = {1}
  ModifyQuantities = {0, 1}
  MaxMessages = 4
  AssignSymbols = TRUE
INVARIANT BooksAreSerial
INVARIANT CollectIsSerial
INVARIANT RingsAreServed
PROPERTY StopDrains
