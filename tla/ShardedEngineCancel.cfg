SPECIFICATION Spec
CONSTANTS
  NumShards = 2
  Symbols = {0, 1, 2}
  ShardOf <- MCShardOf
  RingCapacity = 2
  PoolCapacity = 2
  AddQuantities = {1}
  ModifyQuantities = {0, 1}
  MaxMessages = 3
  AssignSymbols = FALSE
INVARIANT CollectIsSerial
